---- MODULE Spec2Model ----
(***************************************************************************)
(* A model of backend/app.py: the Flask file-converter backend.  The state *)
(* is the in-memory job registry conversion_status, the two folders        *)
(* (uploads, converted) and, for every request that is being handled, the  *)
(* handler's local variables and its position.  The submit handlers are    *)
(* cut at the places where they wait for the outside world (saving the     *)
(* upload, running the converter), so requests interleave there; the       *)
(* read-only handlers are one step each.                                    *)
(***************************************************************************)
EXTENDS Integers, Sequences, FiniteSets, TLC

VARIABLES
    conversion_status,  \* app.py:25, file_id -> job record
    fs,                 \* the paths that exist under uploads/ and converted/
    uuid_count,         \* how many uuid4() values have been drawn
    pc,                 \* per request slot: where its handler stands
    endpoint,           \* per request slot: the route being handled
    direction,          \* convert_batch: request.form['direction']
    files,              \* per request slot: the uploaded filenames, in order
    idx,                \* convert_batch: position of the for loop in files
    file_id,            \* per request slot: the handler's local file_id
    results,            \* convert_batch: the local list results
    response            \* the response a conversion request returned with in the
                        \* latest step, if one did

vars == <<conversion_status, fs, uuid_count, pc, endpoint, direction, files,
          idx, file_id, results, response>>

----------------------------------------------------------------------------
(* Bounds *)

MaxBatch == 2
MaxBulk == 2

\* The requests that can be in flight at once.  Handlers are anonymous, so a
\* new request takes the first free slot.
Slots == {1, 2}

None == "None"
NoResponse == [code |-> 0]

----------------------------------------------------------------------------
(* Strings.  A filename is a sequence of one-character strings. *)

LowerChar(c) ==
    CASE c = "A" -> "a"
      [] c = "C" -> "c"
      [] c = "D" -> "d"
      [] c = "F" -> "f"
      [] c = "O" -> "o"
      [] c = "P" -> "p"
      [] c = "X" -> "x"
      [] OTHER -> c

\* str.lower()
Lower(s) == [i \in 1..Len(s) |-> LowerChar(s[i])]

\* str.endswith(suffix)
EndsWith(s, suffix) ==
    /\ Len(s) >= Len(suffix)
    /\ SubSeq(s, Len(s) - Len(suffix) + 1, Len(s)) = suffix

DotDocx == <<".", "d", "o", "c", "x">>
DotPdf == <<".", "p", "d", "f">>

\* The characters werkzeug's secure_filename keeps: [A-Za-z0-9_.-]
SafeChars ==
    {"a", "b", "c", "d", "f", "o", "p", "t", "x",
     "A", "C", "D", "F", "O", "P", "X", "1", "_", ".", "-"}

RECURSIVE SplitJoin(_)
\* "_".join(s.split()): runs of blanks become one "_", leading and trailing
\* blanks disappear.
SplitJoin(s) ==
    IF s = <<>> THEN <<>>
    ELSE IF Head(s) = " " THEN SplitJoin(Tail(s))
    ELSE LET rest == Tail(s)
             more == \E i \in 1..Len(rest) : rest[i] # " "
             sep  == rest # <<>> /\ Head(rest) = " " /\ more
         IN  <<Head(s)>> \o (IF sep THEN <<"_">> ELSE <<>>) \o SplitJoin(rest)

RECURSIVE LStrip(_, _)
LStrip(s, chars) ==
    IF s # <<>> /\ Head(s) \in chars THEN LStrip(Tail(s), chars) ELSE s

RECURSIVE RStrip(_, _)
RStrip(s, chars) ==
    IF s # <<>> /\ s[Len(s)] \in chars THEN RStrip(SubSeq(s, 1, Len(s) - 1), chars) ELSE s

\* werkzeug.utils.secure_filename: path separators become blanks, blanks are
\* joined with "_", every character outside [A-Za-z0-9_.-] is dropped and
\* leading and trailing "." and "_" are stripped.
secure_filename(name) ==
    LET nosep  == [i \in 1..Len(name) |-> IF name[i] = "/" THEN " " ELSE name[i]]
        joined == SplitJoin(nosep)
        kept   == SelectSeq(joined, LAMBDA c : c \in SafeChars)
    IN  RStrip(LStrip(kept, {".", "_"}), {".", "_"})

\* str.rfind("."), 1-based, 0 when absent
RFindDot(s) ==
    LET dots == {i \in 1..Len(s) : s[i] = "."}
    IN  IF dots = {} THEN 0 ELSE CHOOSE i \in dots : \A j \in dots : j <= i

\* pathlib's PurePath.stem of a name without separators
Stem(name) ==
    LET i == RFindDot(name)
    IN  IF 1 < i /\ i < Len(name) THEN SubSeq(name, 1, i - 1) ELSE name

\* UPLOAD_FOLDER / name, CONVERTED_FOLDER / name
UPLOAD_FOLDER == "uploads"
CONVERTED_FOLDER == "converted"
Join(dir, name) == <<dir, "/">> \o name
PathName(path) == SubSeq(path, 3, Len(path))

\* str(uuid.uuid4()): the n-th identifier drawn; no two draws are equal
Uuid4(n) == "u" \o ToString(n)

\* The identifiers uuid4() comes up with in a run
Uuids == {"u1", "u2"}

----------------------------------------------------------------------------
(* The job registry *)

\* conversion_status[key] = value
Put(d, key, value) ==
    [k \in DOMAIN d \cup {key} |-> IF k = key THEN value ELSE d[k]]

\* app.py:128: the record a job is created with
ProcessingRecord == [status |-> "processing", progress |-> 0]

\* A failure that leaves the output location on the record
ErrorRecordWithOutput(message) ==
    [status |-> "error", message |-> message, output_file |-> "None"]

\* app.py:141: the record of a failed job
ErrorRecord(message) == [status |-> "error", message |-> message]

\* A completion that forgets to leave processing
CompletedRecordStillProcessing(final_output, original_name) ==
    [status |-> "processing", progress |-> 100,
     output_file |-> final_output, original_name |-> original_name]

\* app.py:148-153: the record of a completed job
CompletedRecord(final_output, original_name) ==
    [status |-> "completed", progress |-> 100,
     output_file |-> final_output, original_name |-> original_name]

----------------------------------------------------------------------------
(* Inputs *)

Pdf == <<"p", "d", "f">>
Docx == <<"d", "o", "c", "x">>

\* The names a client uploads a file under (<<>> is the empty filename)
FileNames ==
    { <<>>,
      <<"a", ".", "p", "d", "f">>,
      <<"a", ".", "t", "x", "t">>,
      <<"a", " ", "b", ".", "D", "O", "C", "X">> }

\* request.files['file']: no part at all, or one part with its filename
SingleUploads == {<<>>} \cup {<<n>> : n \in FileNames}

\* The names of the parts of a batch
BatchNames ==
    { <<>>,
      <<"a", ".", "d", "o", "c", "x">>,
      <<"a", ".", "p", "d", "f">> }

\* request.files.getlist('files'): <<>> when the field is missing
BatchUploads ==
    UNION {[1..n -> BatchNames] : n \in 0..MaxBatch}

Directions == {"docx-to-pdf", "pdf-to-docx"}

\* What the outside world makes of one run of soffice
SofficeOutcomes == {"ok", "not_found", "nonzero", "no_output", "timeout", "exception"}

\* What the outside world makes of one run of pdf2docx
Pdf2DocxOutcomes == {"ok", "exception"}

\* The identifiers a client may ask for: every one that can be issued, and
\* one that never is
UnknownId == "u0"
ClientIds == Uuids \cup {UnknownId}

BulkRequests ==
    UNION {[1..n -> ClientIds] : n \in 0..MaxBulk}

----------------------------------------------------------------------------
(* convert_with_libreoffice *)

NoPath == <<>>

\* app.py:53-109.  The result is the exception that leaves the function ("" for
\* none), the returned path (NoPath for None) and the files soffice wrote.
convert_with_libreoffice(outcome, input_file, output_dir, output_format) ==
    LET input_stem     == Stem(PathName(input_file))
        converted_file == Join(output_dir, input_stem \o <<".">> \o output_format)
    IN  IF outcome = "not_found"
        THEN [exception |-> "LibreOffice not found", output_path |-> NoPath, written |-> {}]
        ELSE IF outcome = "ok"
        THEN [exception |-> "", output_path |-> converted_file, written |-> {converted_file}]
        ELSE [exception |-> "", output_path |-> NoPath, written |-> {}]

----------------------------------------------------------------------------
(* The state after the module is loaded: no job, empty folders, every       *)
(* request slot free.                                                       *)

Init ==
    /\ conversion_status = <<>>
    /\ fs = {}
    /\ uuid_count = 0
    /\ pc = [r \in Slots |-> "idle"]
    /\ endpoint = [r \in Slots |-> None]
    /\ direction = [r \in Slots |-> None]
    /\ files = [r \in Slots |-> <<>>]
    /\ idx = [r \in Slots |-> 0]
    /\ file_id = [r \in Slots |-> None]
    /\ results = [r \in Slots |-> <<>>]
    /\ response = NoResponse

\* A handler returns: its locals are gone and the slot is free again.
Return(r) ==
    /\ pc' = [pc EXCEPT ![r] = "idle"]
    /\ endpoint' = [endpoint EXCEPT ![r] = None]
    /\ direction' = [direction EXCEPT ![r] = None]
    /\ files' = [files EXCEPT ![r] = <<>>]
    /\ idx' = [idx EXCEPT ![r] = 0]
    /\ file_id' = [file_id EXCEPT ![r] = None]
    /\ results' = [results EXCEPT ![r] = <<>>]

Respond(code, ep, request, body) ==
    response' = [code |-> code, endpoint |-> ep, request |-> request, body |-> body]

\* The worker a new request is given
FreeSlot(r) == pc[r] = "idle" /\ \A q \in Slots : q < r => pc[q] # "idle"

\* An identifier that is not fresh
ReusedFileId == Uuid4(1)

\* file_id = str(uuid.uuid4())
NewFileId == Uuid4(uuid_count + 1)

\* filename = secure_filename(file.filename), for the file the slot is at
Filename(r) == secure_filename(files[r][idx[r]])

\* A staging name made of the filename alone
InputPathWithoutId(r) == Join(UPLOAD_FOLDER, Filename(r))

\* input_path = UPLOAD_FOLDER / f'{file_id}_{filename}'
InputPath(r) == Join(UPLOAD_FOLDER, <<file_id[r], "_">> \o Filename(r))

\* final_output = CONVERTED_FOLDER / f'{file_id}_{Path(filename).stem}.{ext}'
FinalOutput(r, ext) ==
    Join(CONVERTED_FOLDER, <<file_id[r], "_">> \o Stem(Filename(r)) \o <<".">> \o ext)

\* Path(filename).stem + '.' + ext
OriginalName(r, ext) == Stem(Filename(r)) \o <<".">> \o ext

----------------------------------------------------------------------------
(* The single-file endpoints *)

\* A validation that forgets the file type
ValidationErrorWithoutType(upload, suffix, wrong_type) ==
    IF upload = <<>> THEN "No file provided"
    ELSE IF upload[1] = <<>> THEN "No file selected"
    ELSE None

\* app.py:114-123 and 171-180: the reason the upload is rejected, or None
ValidationError(upload, suffix, wrong_type) ==
    IF upload = <<>> THEN "No file provided"
    ELSE IF upload[1] = <<>> THEN "No file selected"
    ELSE IF ~EndsWith(Lower(upload[1]), suffix) THEN wrong_type
    ELSE None

\* What a single-file endpoint answers before it creates anything: the 400 of
\* an upload it refuses, NoResponse for one it goes on with.
Rejection(upload, suffix, wrong_type) ==
    IF ValidationError(upload, suffix, wrong_type) # None
    THEN [code |-> 400, body |-> [error |-> ValidationError(upload, suffix, wrong_type)]]
    ELSE NoResponse

\* The early returns with 400, whatever the refused upload is: the handler ends
\* before it has written anything.
SingleReject(suffix, wrong_type) ==
    /\ {upload \in SingleUploads : Rejection(upload, suffix, wrong_type).code = 400} # {}
    /\ response' = NoResponse
    /\ UNCHANGED <<conversion_status, fs, uuid_count, pc, endpoint, direction,
                   files, idx, file_id, results>>

\* app.py:127-128: the job is created as processing, progress 0.
SingleCreate(r, ep, upload, suffix, wrong_type) ==
    /\ FreeSlot(r)
    /\ ValidationError(upload, suffix, wrong_type) = None
    /\ NewFileId \in Uuids
    /\ uuid_count' = uuid_count + 1
    /\ conversion_status' = Put(conversion_status, NewFileId, ProcessingRecord)
    /\ file_id' = [file_id EXCEPT ![r] = NewFileId]
    /\ pc' = [pc EXCEPT ![r] = "saving"]
    /\ endpoint' = [endpoint EXCEPT ![r] = ep]
    /\ files' = [files EXCEPT ![r] = upload]
    /\ idx' = [idx EXCEPT ![r] = 1]
    /\ response' = NoResponse
    /\ UNCHANGED <<fs, direction, results>>

\* A save that reports its progress on every job that is still processing
SingleSaveOnAllJobs(r, ep) ==
    /\ pc[r] = "saving"
    /\ endpoint[r] = ep
    /\ fs' = fs \cup {InputPath(r)}
    /\ conversion_status' =
           [id \in DOMAIN conversion_status |->
               IF conversion_status[id].status = "processing"
               THEN [conversion_status[id] EXCEPT !.progress = 30]
               ELSE conversion_status[id]]
    /\ pc' = [pc EXCEPT ![r] = "converting"]
    /\ response' = NoResponse
    /\ UNCHANGED <<uuid_count, endpoint, direction, files, idx, file_id, results>>

\* app.py:131-135: the upload is saved under uploads/ and progress becomes 30.
SingleSave(r, ep) ==
    /\ pc[r] = "saving"
    /\ endpoint[r] = ep
    /\ fs' = fs \cup {InputPath(r)}
    /\ conversion_status' =
           [conversion_status EXCEPT ![file_id[r]].progress = 30]
    /\ pc' = [pc EXCEPT ![r] = "converting"]
    /\ response' = NoResponse
    /\ UNCHANGED <<uuid_count, endpoint, direction, files, idx, file_id, results>>

\* app.py:114-123
convert_docx_to_pdf_rejection(upload) ==
    Rejection(upload, DotDocx, "File must be a .docx document")

\* app.py:171-180
convert_pdf_to_docx_rejection(upload) ==
    Rejection(upload, DotPdf, "File must be a .pdf document")

convert_docx_to_pdf_reject ==
    SingleReject(DotDocx, "File must be a .docx document")

convert_docx_to_pdf_create(r, upload) ==
    SingleCreate(r, "docx-to-pdf", upload, DotDocx, "File must be a .docx document")

convert_docx_to_pdf_save(r) == SingleSave(r, "docx-to-pdf")

\* app.py:138-166: soffice has run; the rest of the handler follows.
convert_docx_to_pdf_convert(r, outcome) ==
    /\ pc[r] = "converting"
    /\ endpoint[r] = "docx-to-pdf"
    /\ LET res == convert_with_libreoffice(outcome, InputPath(r), CONVERTED_FOLDER, Pdf)
           final_output == FinalOutput(r, Pdf)
       IN  IF res.exception # ""
           THEN \* except Exception as e (164-166)
                /\ Respond(500, "docx-to-pdf", files[r], [error |-> res.exception])
                /\ UNCHANGED <<conversion_status, fs>>
           ELSE IF res.output_path = NoPath
           THEN \* if not output_path (140-142)
                /\ conversion_status' =
                       Put(conversion_status, file_id[r], ErrorRecord("Conversion failed"))
                /\ Respond(500, "docx-to-pdf", files[r], [error |-> "Conversion failed"])
                /\ UNCHANGED fs
           ELSE \* rename, mark completed, unlink the input (145-162)
                /\ fs' = (((fs \cup res.written) \ {res.output_path})
                              \cup {final_output}) \ {InputPath(r)}
                /\ conversion_status' =
                       Put(conversion_status, file_id[r],
                           CompletedRecord(final_output, OriginalName(r, Pdf)))
                /\ Respond(200, "docx-to-pdf", files[r],
                           [file_id |-> file_id[r], status |-> "completed",
                            original_name |-> OriginalName(r, Pdf)])
    /\ Return(r)
    /\ UNCHANGED uuid_count

convert_pdf_to_docx_reject ==
    SingleReject(DotPdf, "File must be a .pdf document")

convert_pdf_to_docx_create(r, upload) ==
    SingleCreate(r, "pdf-to-docx", upload, DotPdf, "File must be a .pdf document")

convert_pdf_to_docx_save(r) == SingleSave(r, "pdf-to-docx")

\* app.py:195-225: pdf2docx has run; the rest of the handler follows.
convert_pdf_to_docx_convert(r, outcome) ==
    /\ pc[r] = "converting"
    /\ endpoint[r] = "pdf-to-docx"
    /\ LET final_output == FinalOutput(r, Docx)
           message == "Conversion failed: pdf2docx error"
       IN  IF outcome = "exception"
           THEN \* the inner except (202-205)
                /\ conversion_status' =
                       Put(conversion_status, file_id[r], ErrorRecord(message))
                /\ Respond(500, "pdf-to-docx", files[r], [error |-> message])
                /\ UNCHANGED fs
           ELSE \* mark completed, unlink the input (207-221)
                /\ fs' = (fs \cup {final_output}) \ {InputPath(r)}
                /\ conversion_status' =
                       Put(conversion_status, file_id[r],
                           CompletedRecord(final_output, OriginalName(r, Docx)))
                /\ Respond(200, "pdf-to-docx", files[r],
                           [file_id |-> file_id[r], status |-> "completed",
                            original_name |-> OriginalName(r, Docx)])
    /\ Return(r)
    /\ UNCHANGED uuid_count

----------------------------------------------------------------------------
(* convert_batch *)

\* The two directions mixed up
BatchSuffixSwapped(dir) == IF dir = "docx-to-pdf" THEN DotPdf ELSE DotDocx

\* app.py:243-251: the suffix a part must have under the direction
BatchSuffix(dir) == IF dir = "docx-to-pdf" THEN DotDocx ELSE DotPdf

\* output_format = 'pdf' if direction == 'docx-to-pdf' else 'docx'
OutputFormat(dir) == IF dir = "docx-to-pdf" THEN Pdf ELSE Docx

BatchRequest(r) == [files |-> files[r], direction |-> direction[r]]

\* results.append({'filename': ..., 'error': ...})
ErrorEntry(name, reason) == [filename |-> name, error |-> reason]

\* results.append({'filename': ..., 'file_id': ..., 'status': 'completed', ...})
SuccessEntry(name, id, original_name) ==
    [filename |-> name, file_id |-> id, status |-> "completed",
     original_name |-> original_name]

\* app.py:230-231: the request has no 'files' field.
convert_batch_reject ==
    /\ response' = NoResponse
    /\ UNCHANGED <<conversion_status, fs, uuid_count, pc, endpoint, direction,
                   files, idx, file_id, results>>

\* app.py:233-236: the handler starts its loop with results = [].  The model
\* keeps one batch in flight at a time, beside single-file requests.
convert_batch_begin(r, upload, dir) ==
    /\ FreeSlot(r)
    /\ \A q \in Slots : endpoint[q] # "batch"
    /\ upload # <<>>
    /\ pc' = [pc EXCEPT ![r] = "b_loop"]
    /\ endpoint' = [endpoint EXCEPT ![r] = "batch"]
    /\ direction' = [direction EXCEPT ![r] = dir]
    /\ files' = [files EXCEPT ![r] = upload]
    /\ idx' = [idx EXCEPT ![r] = 1]
    /\ results' = [results EXCEPT ![r] = <<>>]
    /\ response' = NoResponse
    /\ UNCHANGED <<conversion_status, fs, uuid_count, file_id>>

AtFile(r) == pc[r] = "b_loop" /\ idx[r] <= Len(files[r])

NextFile(r) ==
    /\ idx' = [idx EXCEPT ![r] = idx[r] + 1]
    /\ pc' = [pc EXCEPT ![r] = "b_loop"]

\* app.py:239-240: a part with an empty filename is passed over.
convert_batch_skip(r) ==
    /\ AtFile(r)
    /\ files[r][idx[r]] = <<>>
    /\ NextFile(r)
    /\ response' = NoResponse
    /\ UNCHANGED <<conversion_status, fs, uuid_count, endpoint, direction, files,
                   file_id, results>>

\* A wrong type that is passed over without an entry
convert_batch_invalid_silent(r) ==
    /\ pc[r] = "b_loop" /\ idx[r] <= Len(files[r])
    /\ files[r][idx[r]] # <<>>
    /\ ~EndsWith(Lower(files[r][idx[r]]), BatchSuffix(direction[r]))
    /\ idx' = [idx EXCEPT ![r] = idx[r] + 1]
    /\ response' = NoResponse
    /\ UNCHANGED <<conversion_status, fs, uuid_count, pc, endpoint, direction, files,
                   file_id, results>>

\* app.py:243-256: a part of the wrong type gets an error entry.
convert_batch_invalid(r) ==
    /\ AtFile(r)
    /\ files[r][idx[r]] # <<>>
    /\ ~EndsWith(Lower(files[r][idx[r]]), BatchSuffix(direction[r]))
    /\ results' = [results EXCEPT ![r] =
                       Append(@, ErrorEntry(files[r][idx[r]], "Invalid file type"))]
    /\ NextFile(r)
    /\ response' = NoResponse
    /\ UNCHANGED <<conversion_status, fs, uuid_count, endpoint, direction, files,
                   file_id>>

\* app.py:259-264: the job is created and the part saved under uploads/.
convert_batch_create(r) ==
    /\ AtFile(r)
    /\ files[r][idx[r]] # <<>>
    /\ EndsWith(Lower(files[r][idx[r]]), BatchSuffix(direction[r]))
    /\ NewFileId \in Uuids
    /\ uuid_count' = uuid_count + 1
    /\ conversion_status' = Put(conversion_status, NewFileId, ProcessingRecord)
    /\ file_id' = [file_id EXCEPT ![r] = NewFileId]
    /\ fs' = fs \cup {Join(UPLOAD_FOLDER,
                           <<NewFileId, "_">> \o secure_filename(files[r][idx[r]]))}
    /\ pc' = [pc EXCEPT ![r] = "b_converting"]
    /\ response' = NoResponse
    /\ UNCHANGED <<endpoint, direction, files, idx, results>>

\* app.py:267-304: soffice has run; the rest of the loop body follows.
convert_batch_convert(r, outcome) ==
    /\ pc[r] = "b_converting"
    /\ LET output_format == OutputFormat(direction[r])
           res == convert_with_libreoffice(outcome, InputPath(r), CONVERTED_FOLDER,
                                           output_format)
           final_output == FinalOutput(r, output_format)
           name == files[r][idx[r]]
       IN  IF res.exception # ""
           THEN \* except Exception as e (300-304)
                /\ results' = [results EXCEPT ![r] =
                                   Append(@, ErrorEntry(name, res.exception))]
                /\ UNCHANGED <<conversion_status, fs>>
           ELSE IF res.output_path = NoPath
           THEN \* if not output_path (272-277)
                /\ results' = [results EXCEPT ![r] =
                                   Append(@, ErrorEntry(name, "Conversion failed"))]
                /\ UNCHANGED <<conversion_status, fs>>
           ELSE \* rename, mark completed, unlink the input (280-298)
                /\ fs' = (((fs \cup res.written) \ {res.output_path})
                              \cup {final_output}) \ {InputPath(r)}
                /\ conversion_status' =
                       Put(conversion_status, file_id[r],
                           CompletedRecord(final_output, OriginalName(r, output_format)))
                /\ results' = [results EXCEPT ![r] =
                                   Append(@, SuccessEntry(name, file_id[r],
                                                          OriginalName(r, output_format)))]
    /\ NextFile(r)
    /\ response' = NoResponse
    /\ UNCHANGED <<uuid_count, endpoint, direction, files, file_id>>

\* app.py:306: the loop is over.
convert_batch_return(r) ==
    /\ pc[r] = "b_loop"
    /\ idx[r] > Len(files[r])
    /\ Respond(200, "batch", BatchRequest(r), [results |-> results[r]])
    /\ Return(r)
    /\ UNCHANGED <<conversion_status, fs, uuid_count>>

----------------------------------------------------------------------------
(* The read-only endpoints.  What such a handler answers is a function of   *)
(* the registry, the folders and its argument: the operator named after the *)
(* handler is that answer, and the request action beside it is the          *)
(* handler's effect on the state.                                            *)

Answer(code, body) == [code |-> code, body |-> body]

UNCHANGED_requests ==
    UNCHANGED <<pc, endpoint, direction, files, idx, file_id, results>>

\* A status that carries how many identifiers the server has drawn so far
get_status_with_count(id) ==
    IF id \notin DOMAIN conversion_status
    THEN Answer(404, [error |-> "File not found"])
    ELSE Answer(200, [job |-> conversion_status[id], drawn |-> uuid_count])

\* app.py:365-371
get_status(id) ==
    IF id \notin DOMAIN conversion_status
    THEN Answer(404, [error |-> "File not found"])
    ELSE Answer(200, conversion_status[id])

\* Whatever the identifier asked for is, nothing is written.
status_request ==
    /\ {id \in ClientIds : get_status(id).code \in {200, 404}} # {}
    /\ response' = NoResponse
    /\ UNCHANGED <<conversion_status, fs, uuid_count>>
    /\ UNCHANGED_requests

\* A download that tells an unfinished job from no job at all in no way
download_file_not_ready_as_missing(id) ==
    IF id \notin DOMAIN conversion_status
    THEN Answer(404, [error |-> "File not found"])
    ELSE LET status == conversion_status[id]
         IN  IF status.status # "completed" \/ status.output_file \notin fs
             THEN Answer(404, [error |-> "File not found"])
             ELSE Answer(200, [file |-> status.output_file,
                               download_name |-> status.original_name])

\* app.py:308-328
download_file(id) ==
    IF id \notin DOMAIN conversion_status
    THEN Answer(404, [error |-> "File not found"])
    ELSE LET status == conversion_status[id]
         IN  IF status.status # "completed"
             THEN Answer(400, [error |-> "File not ready"])
             ELSE IF status.output_file \notin fs
             THEN Answer(404, [error |-> "File not found"])
             ELSE Answer(200, [file |-> status.output_file,
                               download_name |-> status.original_name])

\* A download that forgets the job once its file has been delivered
download_request_forgetting ==
    /\ {id \in ClientIds : download_file(id).code \in {200, 400, 404}} # {}
    /\ conversion_status' =
           [id \in {k \in DOMAIN conversion_status : download_file(k).code # 200}
               |-> conversion_status[id]]
    /\ response' = NoResponse
    /\ UNCHANGED <<fs, uuid_count>>
    /\ UNCHANGED_requests

\* Whatever the identifier asked for is, nothing is written.
download_request ==
    /\ {id \in ClientIds : download_file(id).code \in {200, 400, 404}} # {}
    /\ response' = NoResponse
    /\ UNCHANGED <<conversion_status, fs, uuid_count>>
    /\ UNCHANGED_requests

\* An archive that does not look for the artifact
ArchivableUnchecked(id) ==
    /\ id \in DOMAIN conversion_status
    /\ conversion_status[id].status = "completed"

\* app.py:352-356: the tests an identifier passes to get into the archive
Archivable(id) ==
    /\ id \in DOMAIN conversion_status
    /\ conversion_status[id].status = "completed"
    /\ conversion_status[id].output_file \in fs

\* app.py:350-357: what the loop writes into the ZIP, in order
ZipEntries(file_ids) ==
    LET kept == SelectSeq(file_ids, Archivable)
    IN  [i \in 1..Len(kept) |->
            [arcname |-> conversion_status[kept[i]].original_name,
             source  |-> conversion_status[kept[i]].output_file]]

\* zip_path = CONVERTED_FOLDER / f'{zip_id}_converted_files.zip'
ZipPath(zip_id) ==
    Join(CONVERTED_FOLDER, <<zip_id, "_", "converted_files", ".", "z", "i", "p">>)

\* app.py:343-363
download_bulk(file_ids) ==
    IF file_ids = <<>>
    THEN Answer(400, [error |-> "No files specified"])
    ELSE Answer(200, [file |-> ZipPath(NewFileId),
                      download_name |-> "converted_files.zip",
                      entries |-> ZipEntries(file_ids)])

\* An empty list that is archived all the same
bulk_request_empty_archived ==
    /\ NewFileId \in Uuids
    /\ uuid_count' = uuid_count + 1
    /\ fs' = fs \cup {ZipPath(NewFileId)}
    /\ response' = NoResponse
    /\ UNCHANGED conversion_status
    /\ UNCHANGED_requests

\* app.py:343-344: an empty list is refused before anything is written.
bulk_request_empty ==
    /\ download_bulk(<<>>).code = 400
    /\ response' = NoResponse
    /\ UNCHANGED <<conversion_status, fs, uuid_count>>
    /\ UNCHANGED_requests

\* app.py:346-363: whatever the identifiers of a non-empty list are, the
\* handler draws a zip_id and leaves the archive in converted/.
bulk_request_archive ==
    /\ NewFileId \in Uuids
    /\ {file_ids \in BulkRequests : download_bulk(file_ids).code = 200} # {}
    /\ uuid_count' = uuid_count + 1
    /\ fs' = fs \cup {ZipPath(NewFileId)}
    /\ response' = NoResponse
    /\ UNCHANGED conversion_status
    /\ UNCHANGED_requests

\* app.py:373-382: soffice is found or not
health_check(soffice_path) ==
    Answer(200, [status |-> "healthy",
                 libreoffice_found |-> soffice_path # None,
                 libreoffice_path |-> soffice_path])

SofficePaths == {None, "/usr/local/bin/soffice"}

health_request ==
    /\ {soffice_path \in SofficePaths : health_check(soffice_path).code = 200} # {}
    /\ response' = NoResponse
    /\ UNCHANGED <<conversion_status, fs, uuid_count>>
    /\ UNCHANGED_requests

----------------------------------------------------------------------------
(* The folders are ordinary directories: whoever consumed a converted file  *)
(* may delete it, which is why download_file and download_bulk test          *)
(* output_file.exists().                                                     *)

RemoveArtifact(id) ==
    /\ id \in DOMAIN conversion_status
    /\ conversion_status[id].status = "completed"
    /\ conversion_status[id].output_file \in fs
    /\ fs' = fs \ {conversion_status[id].output_file}
    /\ response' = NoResponse
    /\ UNCHANGED <<conversion_status, uuid_count>>
    /\ UNCHANGED_requests

----------------------------------------------------------------------------

Next ==
    \/ convert_docx_to_pdf_reject
    \/ \E r \in Slots, upload \in SingleUploads : convert_docx_to_pdf_create(r, upload)
    \/ \E r \in Slots : convert_docx_to_pdf_save(r)
    \/ \E r \in Slots, outcome \in SofficeOutcomes : convert_docx_to_pdf_convert(r, outcome)
    \/ convert_pdf_to_docx_reject
    \/ \E r \in Slots, upload \in SingleUploads : convert_pdf_to_docx_create(r, upload)
    \/ \E r \in Slots : convert_pdf_to_docx_save(r)
    \/ \E r \in Slots, outcome \in Pdf2DocxOutcomes : convert_pdf_to_docx_convert(r, outcome)
    \/ convert_batch_reject
    \/ \E r \in Slots, upload \in BatchUploads, dir \in Directions :
           convert_batch_begin(r, upload, dir)
    \/ \E r \in Slots : convert_batch_skip(r)
    \/ \E r \in Slots : convert_batch_invalid(r)
    \/ \E r \in Slots : convert_batch_create(r)
    \/ \E r \in Slots, outcome \in SofficeOutcomes : convert_batch_convert(r, outcome)
    \/ \E r \in Slots : convert_batch_return(r)
    \/ status_request
    \/ download_request
    \/ bulk_request_empty
    \/ bulk_request_archive
    \/ health_request
    \/ \E id \in ClientIds : RemoveArtifact(id)

Spec == Init /\ [][Next]_vars

----------------------------------------------------------------------------
(* Properties *)

Singles == {"docx-to-pdf", "pdf-to-docx"}
Terminal == {"completed", "error"}
Jobs == DOMAIN conversion_status

\* A single-file handler returns in this step.
SingleReturns(r) == pc[r] = "converting" /\ pc'[r] = "idle"

\* C1: when a single-file handler returns without success after the converter
\* failed, the job it created is Failed and carries a failure reason.
C1_FailureMarksJobFailed ==
    [][\A r \in Slots :
          (SingleReturns(r) /\ response'.code # 200)
              => /\ conversion_status'[file_id[r]].status = "error"
                 /\ "message" \in DOMAIN conversion_status'[file_id[r]]]_vars

\* C2: when convert_batch has finished the loop body for an input it created
\* a job for, that job is Completed or Failed (the batch never writes to it
\* again before it responds).
C2_BatchJobsReachTerminal ==
    [][\A r \in Slots :
          (pc[r] = "b_converting" /\ pc'[r] = "b_loop")
              => conversion_status'[file_id[r]].status \in Terminal]_vars

\* C3: the identifier a single-file request works under is not in the registry
\* when the request creates its job, and a response that carries a file_id
\* names a job that is in the registry as Completed or Failed.
C3_ReturnedIdFreshAndTerminal ==
    [][/\ \A r \in Slots :
             (pc[r] = "idle" /\ pc'[r] = "saving") => file_id'[r] \notin Jobs
       /\ (/\ response'.code # 0
           /\ response'.endpoint \in Singles
           /\ "file_id" \in DOMAIN response'.body)
              => /\ response'.body.file_id \in DOMAIN conversion_status'
                 /\ conversion_status'[response'.body.file_id].status \in Terminal]_vars

C3_Witness ==
    /\ response.code = 200
    /\ response.endpoint \in Singles
    /\ response.body.file_id \in Jobs
    /\ conversion_status[response.body.file_id].status = "completed"
    /\ Cardinality(Jobs) = 2

\* C4: in every state, a job has an output_file exactly when it is Completed.
C4_OutputIffCompleted ==
    \A id \in Jobs :
        ("output_file" \in DOMAIN conversion_status[id])
            <=> (conversion_status[id].status = "completed")

C4_Witness ==
    \E a, b \in Jobs :
        /\ conversion_status[a].status = "completed"
        /\ conversion_status[b].status = "error"

\* C5: a job's status changes only from processing to completed or error, and
\* the record of a Completed or Failed job is never changed or removed again.
C5_StatusMonotone ==
    [][\A id \in Jobs :
          /\ id \in DOMAIN conversion_status'
          /\ conversion_status[id].status \in Terminal
                 => conversion_status'[id] = conversion_status[id]
          /\ conversion_status'[id].status # conversion_status[id].status
                 => /\ conversion_status[id].status = "processing"
                    /\ conversion_status'[id].status \in Terminal]_vars

\* A Completed job while another request is still converting.
C5_Witness ==
    \E id \in Jobs, r \in Slots :
        /\ conversion_status[id].status \in Terminal
        /\ pc[r] \in {"converting", "b_converting"}
        /\ file_id[r] # id

\* C6 ---------------------------------------------------------------------

\* The name ends in "." and ext, whatever the case of its letters.
HasExtension(name, ext) ==
    LET i == RFindDot(name)
    IN  i > 0 /\ Lower(SubSeq(name, i + 1, Len(name))) = ext

\* No file, an empty filename, or a filename of another type than ext.
InvalidUpload(upload, ext) ==
    \/ upload = <<>>
    \/ upload[1] = <<>>
    \/ ~HasExtension(upload[1], ext)

SourceFormat(ep) == IF ep = "docx-to-pdf" THEN Docx ELSE Pdf

\* C6: a single-file endpoint answers an upload that fails validation with
\* 400, and no step of a single-file request changes the registry unless the
\* upload of that request passes validation: a rejected upload creates no job
\* and leaves the registry as it was.
C6_RejectedUploadCreatesNoJob ==
    /\ [](\A upload \in SingleUploads :
             /\ InvalidUpload(upload, Docx)
                    => convert_docx_to_pdf_rejection(upload).code = 400
             /\ InvalidUpload(upload, Pdf)
                    => convert_pdf_to_docx_rejection(upload).code = 400)
    /\ [][\A r \in Slots :
             /\ (pc[r] = "idle" /\ pc'[r] = "saving")
                    => ~InvalidUpload(files'[r], SourceFormat(endpoint'[r]))
             /\ (conversion_status' # conversion_status)
                    => \E q \in Slots :
                          /\ pc[q] # "idle" \/ pc'[q] # "idle"
                          /\ LET ep == IF pc[q] = "idle" THEN endpoint'[q] ELSE endpoint[q]
                                 up == IF pc[q] = "idle" THEN files'[q] ELSE files[q]
                             IN  ep \in Singles => ~InvalidUpload(up, SourceFormat(ep))]_vars

\* A .txt upload is refused by docx-to-pdf while the registry holds jobs.
C6_Witness ==
    /\ Jobs # {}
    /\ convert_docx_to_pdf_rejection(<< <<"a", ".", "t", "x", "t">> >>).code = 400
    /\ convert_pdf_to_docx_rejection(<< <<>> >>).code = 400
    /\ \E r \in Slots : pc[r] = "saving" /\ endpoint[r] = "docx-to-pdf"

\* C7 ---------------------------------------------------------------------

BatchResponse == response.code = 200 /\ response.endpoint = "batch"

ResultNames == [i \in 1..Len(response.body.results) |-> response.body.results[i].filename]

\* C7 as claimed: the results of a batch have one entry per input, entry i
\* being that of input i.
C7_OneEntryPerInput ==
    BatchResponse => ResultNames = response.request.files

\* C7 as amended: the results of a batch have one entry per input with a
\* non-empty filename, in the order of submission.
C7_OneEntryPerNamedInput ==
    BatchResponse
        => ResultNames = SelectSeq(response.request.files, LAMBDA n : n # <<>>)

C7_Witness ==
    /\ BatchResponse
    /\ Len(response.request.files) = 2
    /\ response.request.files[1] = <<>>
    /\ Len(response.body.results) = 1

\* C8 ---------------------------------------------------------------------

WrongType(name, dir) ==
    ~HasExtension(name, IF dir = "docx-to-pdf" THEN Docx ELSE Pdf)

ConversionErrors == {"Conversion failed", "LibreOffice not found"}

\* C8: a batch step that meets a named input of the wrong type appends the
\* error entry "Invalid file type", creates no job and moves on to the next
\* input; and in the batch response every named input has its entry: the
\* error entry if it is of the wrong type, else either a success entry whose
\* job is Completed or the error of its own conversion.
C8_BatchIsolatesFailures ==
    /\ [](BatchResponse =>
            LET named == SelectSeq(response.request.files, LAMBDA n : n # <<>>)
                res   == response.body.results
            IN  /\ Len(res) = Len(named)
                /\ \A k \in 1..Len(res) :
                      IF WrongType(named[k], response.request.direction)
                      THEN res[k] = [filename |-> named[k], error |-> "Invalid file type"]
                      ELSE IF "file_id" \in DOMAIN res[k]
                      THEN /\ res[k].file_id \in Jobs
                           /\ conversion_status[res[k].file_id].status = "completed"
                      ELSE res[k].error \in ConversionErrors)
    /\ [][\A r \in Slots :
             (/\ pc[r] = "b_loop" /\ idx[r] <= Len(files[r])
              /\ files[r][idx[r]] # <<>>
              /\ WrongType(files[r][idx[r]], direction[r])
              /\ <<pc[r], idx[r], results[r]>> # <<pc'[r], idx'[r], results'[r]>>)
                 => /\ conversion_status' = conversion_status
                    /\ results'[r] = Append(results[r],
                                            [filename |-> files[r][idx[r]],
                                             error |-> "Invalid file type"])
                    /\ idx'[r] = idx[r] + 1
                    /\ pc'[r] = "b_loop"]_vars

\* A wrong type first, then a conversion that succeeds.
C8_Witness ==
    /\ BatchResponse
    /\ Len(response.body.results) = 2
    /\ "error" \in DOMAIN response.body.results[1]
    /\ response.body.results[1].error = "Invalid file type"
    /\ "file_id" \in DOMAIN response.body.results[2]
    /\ conversion_status[response.body.results[2].file_id].status = "completed"

\* C9 ---------------------------------------------------------------------

\* Known, Completed, and the artifact is there.
ValidJob(id) ==
    /\ id \in Jobs
    /\ conversion_status[id].status = "completed"
    /\ conversion_status[id].output_file \in fs

RECURSIVE EntriesOfValid(_)
\* One entry for every identifier of the list that is a valid job, in the
\* order of the list
EntriesOfValid(file_ids) ==
    IF file_ids = <<>> THEN <<>>
    ELSE (IF ValidJob(Head(file_ids))
          THEN << [arcname |-> conversion_status[Head(file_ids)].original_name,
                   source  |-> conversion_status[Head(file_ids)].output_file] >>
          ELSE <<>>) \o EntriesOfValid(Tail(file_ids))

\* C9: download_bulk answers every non-empty list with an archive whose
\* entries are, in the order of the list, those of the identifiers that are
\* known, Completed and have their artifact; the others are passed over.
C9_BulkSkipsInvalidIds ==
    \A file_ids \in BulkRequests \ {<<>>} :
        LET answer == download_bulk(file_ids)
        IN  /\ answer.code = 200
            /\ answer.body.entries = EntriesOfValid(file_ids)

\* [completedId, unknownId, failedId] gives one entry; so does a list with a
\* Completed job whose artifact is gone.
C9_Witness ==
    \E c, f \in Jobs :
        /\ ValidJob(c)
        /\ conversion_status[f].status = "error"
        /\ <<f, c>> \in BulkRequests
        /\ Len(download_bulk(<<f, c>>).body.entries) = 1
        /\ Len(download_bulk(<<c, UnknownId>>).body.entries) = 1
        /\ download_bulk(<<UnknownId, c>>).body.entries[1].source
               = conversion_status[c].output_file

\* C10 --------------------------------------------------------------------

\* C10: download_bulk fails, and returns no archive, when none of the given
\* identifiers is that of a Completed job whose artifact exists.
C10_NoValidJobsFails ==
    \A file_ids \in BulkRequests :
        (file_ids # <<>> /\ \A i \in 1..Len(file_ids) : ~ValidJob(file_ids[i]))
            => download_bulk(file_ids).code # 200

\* C11 --------------------------------------------------------------------

\* C11: download_bulk answers the empty list with 400 in every state, and the
\* step of that request creates no archive (nothing under converted/ or
\* uploads/ appears, no zip_id is drawn) and leaves the registry as it was.
C11_EmptyBulkFails ==
    /\ [](download_bulk(<<>>).code = 400)
    /\ [][bulk_request_empty
            => /\ fs' = fs
               /\ uuid_count' = uuid_count
               /\ conversion_status' = conversion_status]_vars

\* The empty list is refused while the registry holds a Completed job and an
\* identifier is still free for a zip_id.
C11_Witness ==
    /\ download_bulk(<<>>).code = 400
    /\ \E id \in Jobs : ValidJob(id)
    /\ NewFileId \in Uuids

\* C12 --------------------------------------------------------------------

\* C12: in every state and for every identifier a client may ask for: if the
\* identifier is not in the registry, get_status and download_file answer 404;
\* if it is, get_status answers 200 with the job's record; download_file
\* answers 400 for a job that is processing or error, and answers 200 (with
\* the job's output_file) only for a Completed job whose artifact exists.
C12_LookupsReflectJobState ==
    \A id \in ClientIds :
        /\ id \notin Jobs
               => /\ get_status(id).code = 404
                  /\ download_file(id).code = 404
        /\ id \in Jobs
               => /\ get_status(id) = Answer(200, conversion_status[id])
                  /\ conversion_status[id].status \in {"processing", "error"}
                         => download_file(id).code = 400
        /\ download_file(id).code = 200
               => /\ ValidJob(id)
                  /\ download_file(id).body.file = conversion_status[id].output_file

\* An unknown identifier is asked for while the registry holds a job that is
\* still processing and a Completed one whose artifact is there.
C12_Witness ==
    /\ get_status(UnknownId).code = 404
    /\ download_file(UnknownId).code = 404
    /\ \E a, b \in Jobs :
           /\ conversion_status[a].status = "processing"
           /\ download_file(a).code = 400
           /\ download_file(b).code = 200

\* C13 --------------------------------------------------------------------

\* C13: whatever step the server takes, the answer of get_status for a job that
\* is Completed or Failed is after the step what it was before it; so any two
\* polls of a terminal job, however far apart, return the same job data.
C13_TerminalStatusIdempotent ==
    [][\A id \in Jobs :
          conversion_status[id].status \in Terminal
              => get_status(id)' = get_status(id)]_vars

\* A Failed job and a Completed job can be polled while another request is
\* under way and an identifier has been drawn since.
C13_Witness ==
    \E a, b \in Jobs, r \in Slots :
        /\ get_status(a).body.status = "error"
        /\ get_status(b).body.status = "completed"
        /\ pc[r] # "idle"

\* C14 --------------------------------------------------------------------

\* The format the request of slot r converts to
TargetFormat(r) ==
    IF endpoint[r] = "batch" THEN OutputFormat(direction[r])
    ELSE IF endpoint[r] = "docx-to-pdf" THEN Pdf ELSE Docx

\* The base name of the file as the client uploaded it, then "." and ext
DisplayName(r) == Stem(files[r][idx[r]]) \o <<".">> \o TargetFormat(r)

\* The handler of slot r marks its job completed in this step.
Completes(r) ==
    /\ pc[r] \in {"converting", "b_converting"}
    /\ conversion_status'[file_id[r]].status = "completed"

\* C14: when a handler marks its job completed, the original_name it records
\* is the base name of the uploaded file followed by the target extension; the
\* response of a single-file submit carries that name, and download_file
\* offers it as the download name.
C14_DisplayNameIsOriginalBaseName ==
    [][\A r \in Slots :
          Completes(r)
              => /\ conversion_status'[file_id[r]].original_name = DisplayName(r)
                 /\ download_file(file_id[r])'.body.download_name = DisplayName(r)
                 /\ endpoint[r] \in Singles
                        => response'.body.original_name = DisplayName(r)]_vars

\* C15 --------------------------------------------------------------------

\* The staged uploads: the paths under uploads/
Staged == {p \in fs : p[1] = UPLOAD_FOLDER}

\* The handler that staged p has not finished: a single-file handler working
\* under the identifier in p's name, or the batch that is under way.
StagedByRunningHandler(p) ==
    \E r \in Slots :
        /\ pc[r] # "idle"
        /\ p[3] = file_id[r] \/ endpoint[r] = "batch"

\* C15: in every state, every staged upload belongs to a submit handler that
\* has not finished yet: once a single-file or batch handler has returned,
\* none of the uploads it staged is left, whether its job Completed or Failed.
C15_StagedInputRemoved ==
    \A p \in Staged : StagedByRunningHandler(p)

\* C16 --------------------------------------------------------------------

\* The handler of slot r takes this step.
Steps(r) == pc'[r] # pc[r] \/ idx'[r] # idx[r]

\* C16: the local file_id of a handler is an identifier that handler drew and
\* created the job of (it was not in the registry before), no two handlers
\* hold the same file_id, and every step that changes the record of a job is
\* a step of the handler that holds the job's identifier as its file_id: no
\* request writes the record of a job another request created.
C16_OnlyCreatorWritesJob ==
    /\ [](\A r, q \in Slots :
             (r # q /\ file_id[r] # None) => file_id[r] # file_id[q])
    /\ [][/\ \A r \in Slots :
                (file_id'[r] # file_id[r] /\ file_id'[r] # None)
                    => /\ file_id'[r] \notin Jobs
                       /\ file_id'[r] \in DOMAIN conversion_status'
                       /\ Steps(r)
          /\ \A id \in Jobs :
               (id \notin DOMAIN conversion_status'
                    \/ conversion_status'[id] # conversion_status[id])
                   => \E q \in Slots : file_id[q] = id /\ Steps(q)]_vars

\* Two requests are under way, each with its own job, and one of them has
\* written its job again since creating it.
C16_Witness ==
    \E r, q \in Slots :
        /\ pc[r] = "converting"
        /\ pc[q] \in {"saving", "b_converting"}
        /\ conversion_status[file_id[r]].progress = 30
        /\ conversion_status[file_id[q]].progress = 0

\* C17 --------------------------------------------------------------------

\* The slots whose handler has a job and a file at hand
Working == {r \in Slots : pc[r] \in {"saving", "converting", "b_converting"}}

\* The identifier a path of uploads/ or converted/ starts its name with
PathId(p) == p[3]

\* The paths a step creates or removes
Touched == (fs' \ fs) \cup (fs \ fs')

\* C17: the staging path of a handler, the path the converter writes for it
\* and its final output path all start with the handler's own file_id, so
\* two handlers at work never have a path in common, whatever their
\* filenames; two Completed jobs never have the same output_file; and every
\* path a handler's step creates or removes starts with that handler's
\* file_id, so it is no file of another job.
C17_PathsEmbedOwnId ==
    /\ [](\A r \in Working :
             LET out == convert_with_libreoffice("ok", InputPath(r), CONVERTED_FOLDER,
                                                 TargetFormat(r)).output_path
             IN  /\ PathId(InputPath(r)) = file_id[r]
                 /\ PathId(out) = file_id[r]
                 /\ PathId(FinalOutput(r, TargetFormat(r))) = file_id[r]
                 /\ \A q \in Working \ {r} :
                        {InputPath(r), out, FinalOutput(r, TargetFormat(r))}
                            \cap {InputPath(q), FinalOutput(q, TargetFormat(q))} = {})
    /\ [](\A a, b \in Jobs :
             (/\ a # b
              /\ conversion_status[a].status = "completed"
              /\ conversion_status[b].status = "completed")
                 => conversion_status[a].output_file # conversion_status[b].output_file)
    /\ [][\A r \in Slots :
             Steps(r) => \A p \in Touched : PathId(p) \in {file_id[r], file_id'[r]}]_vars

\* Two requests convert a file uploaded under the same name at the same time:
\* both uploads are staged, under different paths.
C17_Witness ==
    \E r, q \in Working :
        /\ r # q
        /\ pc[r] = "converting" /\ pc[q] = "converting"
        /\ files[r] = files[q]
        /\ InputPath(r) # InputPath(q)
        /\ {InputPath(r), InputPath(q)} \subseteq fs

\* C18 --------------------------------------------------------------------

HasProgress(record) == "progress" \in DOMAIN record

\* C18: in every state every job shows a progress within 0..100; a job is
\* created with progress 0; and no step leaves a job with a smaller progress
\* than it had, or with none.
C18_ProgressMonotone ==
    /\ [](\A id \in Jobs :
             /\ HasProgress(conversion_status[id])
             /\ conversion_status[id].progress \in 0..100)
    /\ [][/\ \A id \in DOMAIN conversion_status' \ Jobs :
                /\ HasProgress(conversion_status'[id])
                /\ conversion_status'[id].progress = 0
          /\ \A id \in Jobs \cap DOMAIN conversion_status' :
                HasProgress(conversion_status[id])
                    => /\ HasProgress(conversion_status'[id])
                       /\ conversion_status'[id].progress
                              >= conversion_status[id].progress]_vars

\* C19 --------------------------------------------------------------------

\* A step of one of the handlers that only read the registry
ReadOnlyRequest ==
    \/ status_request
    \/ download_request
    \/ bulk_request_empty
    \/ bulk_request_archive
    \/ health_request

\* C19: no step removes an identifier from the registry; a step that adds one
\* adds exactly one, which the step has just drawn (it is the next uuid4(), an
\* identifier no job and no archive has had); and the steps of get_status,
\* download_file, download_bulk and health_check leave the registry as it was.
C19_JobsOnlyGrow ==
    [][/\ Jobs \subseteq DOMAIN conversion_status'
       /\ DOMAIN conversion_status' # Jobs
              => /\ DOMAIN conversion_status' = Jobs \cup {NewFileId}
                 /\ NewFileId \notin Jobs
                 /\ ZipPath(NewFileId) \notin fs
                 /\ uuid_count' = uuid_count + 1
       /\ ReadOnlyRequest => conversion_status' = conversion_status]_vars

\* A bulk download has drawn an identifier for its archive after a job was
\* created, and the job is still in the registry.
C19_Witness ==
    /\ Cardinality(Jobs) = 1
    /\ Uuid4(1) \in Jobs
    /\ ZipPath(Uuid4(2)) \in fs

====
